---- MODULE Spec2Model ----
(***************************************************************************)
(* A model of the IHP PDK helpers:                                         *)
(*   - cmim           (ihp/cells/capacitors.py)                            *)
(*   - npn13G2        (ihp/cells/bjt_transistors.py)                       *)
(*   - upload_simulation_dir, print_job_summary, plot_mesh_pv              *)
(*                                        (examples/sim_utils.py)          *)
(*                                                                         *)
(* Lengths are integers in units of 1e-6 um (one millionth of a micron):   *)
(* 0.6 um is 600000, the 0.005 um grid step is 5000.  Sums, differences    *)
(* and products by a constant are taken on these integers.  The width and  *)
(* length arguments of cmim are integers in units of 0.00025 um (6.99 um   *)
(* is 27960), the step for which -0.004 * width is one unit of length, so  *)
(* that the margin taken from the unsnapped width is exact; the centers of *)
(* its ports are in half units of length (0.5e-6 um).  The two places      *)
(* where the code rounds a float quotient to an integer, the grid snapping *)
(* and the tile count, are computed in IEEE double precision as Python     *)
(* does, because the quotient of two doubles decides which way a value     *)
(* half-way between two grid points goes.  An optional value (Python's     *)
(* None or a value) is a sequence of length 0 or 1.                        *)
(***************************************************************************)
EXTENDS Integers, Sequences, FiniteSets

VARIABLES
    cmimCall,    \* <<>> before any call of cmim, else <<[args, ret]>> of the last call
    npnCall,     \* <<>> before any call of npn13G2, else <<[args, ret]>> of the last call
    jobCall,     \* <<>> before any call of print_job_summary, else <<[job, out]>>
    fs,          \* the regular files on disk: path (a sequence of names) -> size in bytes
    run,         \* the latest run of upload_simulation_dir (a record, see IdleRun)
    nRuns,       \* number of runs of upload_simulation_dir started so far
    plotCall,    \* <<>> before any call of plot_mesh_pv, else <<[args, outcome]>>
    nPlots       \* number of calls of plot_mesh_pv so far

vars == <<cmimCall, npnCall, jobCall, fs, run, nRuns, plotCall, nPlots>>

None == <<>>
Some(v) == <<v>>

Max(a, b) == IF a >= b THEN a ELSE b
Min(a, b) == IF a <= b THEN a ELSE b

(***************************************************************************)
(* Python's round(n / d) for integers n and d > 0: to the nearest integer, *)
(* a tie going to the even neighbour.                                      *)
(***************************************************************************)
RoundHalfEven(n, d) ==
    LET q == n \div d
        r == n % d
    IN  IF 2 * r < d THEN q
        ELSE IF 2 * r > d THEN q + 1
        ELSE IF q % 2 = 0 THEN q ELSE q + 1

(***************************************************************************)
(* Natural numbers of any size, as the sequence of their digits in base    *)
(* 2^15, least significant first, without leading zero digits (0 is <<>>). *)
(***************************************************************************)
BASE == 32768
BASE_BITS == 15

\* a without its leading zero digits
BNorm(a) ==
    IF \A i \in DOMAIN a : a[i] = 0 THEN <<>>
    ELSE SubSeq(a, 1, CHOOSE i \in DOMAIN a :
                          a[i] # 0 /\ \A j \in DOMAIN a : j > i => a[j] = 0)

\* an integer 0 <= n < 2^31
BFromNat(n) == BNorm(<<n % BASE, (n \div BASE) % BASE, n \div (BASE * BASE)>>)

\* a number below 2^31 as an integer
RECURSIVE BToNat(_)
BToNat(a) == IF a = <<>> THEN 0 ELSE a[1] + BASE * BToNat(Tail(a))

\* digit i of a, 0 beyond its length
BDigit(a, i) == IF i \in DOMAIN a THEN a[i] ELSE 0

\* a + b, digit by digit: a carry enters digit i when some lower digit sum
\* overflows and every digit sum between the two is BASE - 1
BAdd(a, b) ==
    LET n == Max(Len(a), Len(b)) + 1
        s(i) == BDigit(a, i) + BDigit(b, i)
        carry(i) == \E j \in 1..(i - 1) :
                        s(j) >= BASE /\ \A k \in (j + 1)..(i - 1) : s(k) = BASE - 1
    IN  BNorm([i \in 1..n |-> (s(i) + IF carry(i) THEN 1 ELSE 0) % BASE])

\* a - b for a >= b, digit by digit: a borrow enters digit i when some lower
\* digit difference is negative and every difference between the two is 0
BSub(a, b) ==
    LET s(i) == BDigit(a, i) - BDigit(b, i)
        borrow(i) == \E j \in 1..(i - 1) :
                         s(j) < 0 /\ \A k \in (j + 1)..(i - 1) : s(k) = 0
    IN  BNorm([i \in 1..Len(a) |-> (s(i) - IF borrow(i) THEN 1 ELSE 0) % BASE])

\* -1, 0, 1 as a < b, a = b, a > b: decided by the most significant digit
\* in which they differ
BCmp(a, b) ==
    IF Len(a) < Len(b) THEN -1
    ELSE IF Len(a) > Len(b) THEN 1
    ELSE IF a = b THEN 0
    ELSE LET i == CHOOSE i \in DOMAIN a :
                      a[i] # b[i] /\ \A j \in DOMAIN a : j > i => a[j] = b[j]
         IN  IF a[i] < b[i] THEN -1 ELSE 1

\* a * m for a digit m: the low digits of the products a[i] * m, plus
\* their high digits one place up
BMulSmall(a, m) ==
    BAdd([i \in 1..Len(a) |-> (a[i] * m) % BASE],
         <<0>> \o [i \in 1..Len(a) |-> (a[i] * m) \div BASE])

\* a * b for b of at most four digits (a 53-bit mantissa has four): the sum
\* of the products of a by each digit of b, each moved to the digit's place
BMul(a, b) ==
    LET part(i) == IF i \in DOMAIN b /\ b[i] # 0 /\ a # <<>>
                   THEN [j \in 1..(i - 1) |-> 0] \o BMulSmall(a, b[i])
                   ELSE <<>>
    IN  BAdd(BAdd(part(1), part(2)), BAdd(part(3), part(4)))

\* a * 2^k: whole digits first, then the k % BASE_BITS bits left within
\* and across the digits
BShl(a, k) ==
    LET n == k % BASE_BITS
        bits == [i \in 1..(Len(a) + 1) |->
                    (((IF i <= Len(a) THEN a[i] ELSE 0) * 2^n) % BASE)
                    + (IF i > 1 THEN a[i - 1] \div 2^(BASE_BITS - n) ELSE 0)]
    IN  IF a = <<>> THEN <<>>
        ELSE [i \in 1..(k \div BASE_BITS) |-> 0] \o BNorm(bits)

\* floor(a / 2^k)
BShr(a, k) ==
    LET n == k % BASE_BITS
        d == SubSeq(a, k \div BASE_BITS + 1, Len(a))
    IN  IF k \div BASE_BITS >= Len(a) THEN <<>>
        ELSE BNorm([i \in 1..Len(d) |->
                       (d[i] \div 2^n)
                       + (IF i < Len(d) THEN (d[i + 1] % 2^n) * 2^(BASE_BITS - n)
                          ELSE 0)])

\* the number of binary digits of a
BBitLen(a) ==
    IF a = <<>> THEN 0
    ELSE BASE_BITS * (Len(a) - 1)
         + (CHOOSE k \in 1..BASE_BITS : 2^(k - 1) <= a[Len(a)] /\ a[Len(a)] < 2^k)

BIsOdd(a) == a # <<>> /\ a[1] % 2 = 1

\* The largest digit d in lo..hi with b * d <= cur
RECURSIVE BQuotDigit(_, _, _, _)
BQuotDigit(cur, b, lo, hi) ==
    IF lo = hi THEN lo
    ELSE LET mid == (lo + hi + 1) \div 2
         IN  IF BCmp(BMulSmall(b, mid), cur) <= 0
             THEN BQuotDigit(cur, b, mid, hi)
             ELSE BQuotDigit(cur, b, lo, mid - 1)

\* floor(a / b) and a mod b for b > 0: long division, one digit of a at a
\* time from the most significant; the digits of a above i are done, with
\* quotient digits q and remainder r.  The quotient digit lies between two
\* estimates taken from the leading digits of the running remainder and of b.
RECURSIVE BDivModStep(_, _, _, _, _)
BDivModStep(a, b, i, q, r) ==
    IF i = 0 THEN [q |-> q, r |-> r]
    ELSE LET cur == BNorm(<<a[i]>> \o r)
             top == IF Len(cur) < Len(b) THEN 0
                    ELSE BToNat(SubSeq(cur, Len(b), Len(cur)))
             lo == top \div (b[Len(b)] + 1)
             hi == Min(BASE - 1, (top + 1) \div b[Len(b)])
             d == BQuotDigit(cur, b, lo, hi)
         IN  IF d = 0 /\ q = <<>>
             THEN BDivModStep(a, b, i - 1, <<>>, cur)
             ELSE BDivModStep(a, b, i - 1, <<d>> \o q, BSub(cur, BMulSmall(b, d)))
BDivMod(a, b) ==
    IF Len(a) < Len(b) THEN [q |-> <<>>, r |-> a]
    ELSE BDivModStep(a, b, Len(a) - Len(b) + 1, <<>>,
                     BNorm(SubSeq(a, Len(a) - Len(b) + 2, Len(a))))

(***************************************************************************)
(* IEEE 754 double precision, as Python's float: a number is               *)
(* sgn * m * 2^e with a 53-bit m (2^52 <= m < 2^53), or zero (m = <<>>).   *)
(* Every operation rounds the exact result to nearest, ties to even.       *)
(* Subnormals, infinities and NaN do not occur at the magnitudes used.     *)
(***************************************************************************)
MANT_BITS == 53
FZero == [sgn |-> 1, m |-> <<>>, e |-> 0]

\* The double nearest to sgn * (M + f) * 2^e, where 0 <= f < 1 and sticky
\* tells f > 0 (then M has more than MANT_BITS + 1 bits).
FRound(sgn, M, e, sticky) ==
    IF M = <<>> THEN FZero
    ELSE LET L == BBitLen(M)
         IN  IF L <= MANT_BITS
             THEN [sgn |-> sgn, m |-> BShl(M, MANT_BITS - L), e |-> e - (MANT_BITS - L)]
             ELSE LET k == L - MANT_BITS
                      q == BShr(M, k)
                      rem == BSub(M, BShl(q, k))
                      c == BCmp(rem, BShl(<<1>>, k - 1))
                      up == c > 0 \/ (c = 0 /\ (sticky \/ BIsOdd(q)))
                      q1 == IF up THEN BAdd(q, <<1>>) ELSE q
                  IN  IF BBitLen(q1) > MANT_BITS
                      THEN [sgn |-> sgn, m |-> BShr(q1, 1), e |-> e + k + 1]
                      ELSE [sgn |-> sgn, m |-> q1, e |-> e + k]

\* float(n) for an integer n
FFromInt(n) == FRound(IF n < 0 THEN -1 ELSE 1, BFromNat(IF n < 0 THEN -n ELSE n), 0, FALSE)

FNeg(x) == [x EXCEPT !.sgn = -x.sgn]

FMul(x, y) == FRound(x.sgn * y.sgn, BMul(x.m, y.m), x.e + y.e, FALSE)

DIV_EXTRA_BITS == 56
DIV_NORM_BITS == 7
FDiv(x, y) ==
    IF x.m = <<>> THEN FZero
    ELSE LET d == BDivMod(BShl(x.m, DIV_EXTRA_BITS + DIV_NORM_BITS),
                          BShl(y.m, DIV_NORM_BITS))
         IN  FRound(x.sgn * y.sgn, d.q, x.e - y.e - DIV_EXTRA_BITS, d.r # <<>>)

FAdd(x, y) ==
    IF x.m = <<>> THEN y
    ELSE IF y.m = <<>> THEN x
    ELSE LET e == Min(x.e, y.e)
             X == BShl(x.m, x.e - e)
             Y == BShl(y.m, y.e - e)
             c == BCmp(X, Y)
         IN  IF x.sgn = y.sgn THEN FRound(x.sgn, BAdd(X, Y), e, FALSE)
             ELSE IF c = 0 THEN FZero
             ELSE IF c > 0 THEN FRound(x.sgn, BSub(X, Y), e, FALSE)
             ELSE FRound(y.sgn, BSub(Y, X), e, FALSE)

FSub(x, y) == FAdd(x, FNeg(y))

\* int(math.floor(x))
FFloor(x) ==
    IF x.m = <<>> THEN 0
    ELSE IF x.e >= 0 THEN x.sgn * BToNat(BShl(x.m, x.e))
    ELSE LET q == BShr(x.m, -x.e)
             exact == BShl(q, -x.e) = x.m
         IN  IF x.sgn > 0 THEN BToNat(q)
             ELSE IF exact THEN -BToNat(q) ELSE -BToNat(q) - 1

\* round(x): to the nearest integer, a tie going to the even neighbour
PyRound(x) ==
    IF x.m = <<>> THEN 0
    ELSE IF x.e >= 0 THEN x.sgn * BToNat(BShl(x.m, x.e))
    ELSE LET k == -x.e
             q == BShr(x.m, k)
             rem == BSub(x.m, BShl(q, k))
             c == BCmp(rem, BShl(<<1>>, k - 1))
             up == c > 0 \/ (c = 0 /\ BIsOdd(q))
         IN  x.sgn * (BToNat(q) + IF up THEN 1 ELSE 0)

(***************************************************************************)
(*                               cmim                                      *)
(***************************************************************************)
METAL_5_MIM_MARGIN == 600000
METAL_1_MIM_MARGIN == 340000
VMIM_TILE_LENGTH == 420000
VMIM_TILE_GAP == 840000
GRID_STEP == 5000
\* 1.54 fF/um^2, in hundredths
CAP_DENSITY == 154

\* One unit of a width or length argument, in units of length: 0.00025 um.
ARG_STEP == 250

\* metal_1_mim_margin_x = -0.004 * width + 0.625, from the width as passed in
\* (the line runs before the grid snapping).  width is in argument units,
\* and -0.004 * ARG_STEP is one unit of length less per unit of width.
Metal1MimMarginX(width) == -width + 625000

\* The float that n millionths stand for: the double nearest to n / 10^6, as
\* Python reads the decimal literal (0.005, 0.42, 6.99, ...).
FloatOfMicro(n) == FDiv(FFromInt(n), FFromInt(1000000))

\* round(v / GRID_STEP) * GRID_STEP, for v in argument units.  The quotient
\* is a double: for v half-way between two grid points it can be k + 0.5
\* exactly (the tie then goes to the even k) or fall just below or above it
\* (0.1175 / 0.005 is 23.499999999999996 and snaps down to 0.115).  The
\* product k * GRID_STEP is held as k * 5000 millionths.
GridSnap(v) ==
    PyRound(FDiv(FloatOfMicro(ARG_STEP * v), FloatOfMicro(GRID_STEP))) * GRID_STEP

\* add_rect: a rectangle of the given size whose lower-left corner is moved
\* to origin, appended to the component's references.
add_rect(rects, size, layer, origin) ==
    Append(rects, [layer |-> layer, origin |-> origin, size |-> size])

\* A faulty variant of CmimCapacitance: a capacitance of 0 is taken for "not given".
CmimCapacitanceFalsy(width, length, capacitance) ==
    IF capacitance = None \/ capacitance = Some(0)
    THEN ((width \div GRID_STEP) * (length \div GRID_STEP)) * CAP_DENSITY
    ELSE capacitance[1]

\* "Calculate capacitance": width and length are the snapped values.  The
\* area is counted in grid cells (GRID_STEP^2), which is exact because both
\* factors are multiples of GRID_STEP; the capacitance is in units of
\* GRID_STEP^2 * 0.01 fF/um^2.
CmimCapacitance(width, length, capacitance) ==
    IF capacitance = None
    THEN ((width \div GRID_STEP) * (length \div GRID_STEP)) * CAP_DENSITY
    ELSE capacitance[1]

\* n_tiles = max(int(math.floor((usable + VMIM_TILE_GAP) / tile_pitch)), 0),
\* in doubles as the code computes it, from the snapped float
\* round(v / GRID_STEP) * GRID_STEP (79.38 gives 62.99999999999999, so 62
\* tiles and not 63).
CmimNTiles(snapped) ==
    LET size == FMul(FFromInt(snapped \div GRID_STEP), FloatOfMicro(GRID_STEP))
        metal_1_vmim_margin == FloatOfMicro(VMIM_TILE_LENGTH)
        tile_pitch == FAdd(FloatOfMicro(VMIM_TILE_LENGTH), FloatOfMicro(VMIM_TILE_GAP))
        usable == FSub(size, FMul(FFromInt(2), metal_1_vmim_margin))
    IN  Max(FFloor(FDiv(FAdd(usable, FloatOfMicro(VMIM_TILE_GAP)), tile_pitch)), 0)

\* x (or y) of the lower-left corner of the tile of index i.
CmimTileOrigin(i) ==
    METAL_1_MIM_MARGIN + VMIM_TILE_LENGTH + i * (VMIM_TILE_LENGTH + VMIM_TILE_GAP)

\* The Vmim tiles in drawing order: for ix, for iy.
CmimTiles(n_tiles_x, n_tiles_y) ==
    [k \in 1..(n_tiles_x * n_tiles_y) |->
        [layer |-> "Vmimdrawing",
         origin |-> <<CmimTileOrigin((k - 1) \div n_tiles_y),
                      CmimTileOrigin((k - 1) % n_tiles_y)>>,
         size |-> <<VMIM_TILE_LENGTH, VMIM_TILE_LENGTH>>]]

\* One coordinate of port P1: -METAL_5_MIM_MARGIN + metal_5_size / 2.0.
\* A port's center is held in half units of length (0.5e-6 um), twice the
\* value in units, so that the division by 2.0 is exact for every size.
CmimP1Center(metal_5_size) == -2 * METAL_5_MIM_MARGIN + metal_5_size

\* One coordinate of port P2: METAL_1_MIM_MARGIN + metal_1_size / 2.0, in
\* half units of length.
CmimP2Center(metal_1_size) == 2 * METAL_1_MIM_MARGIN + metal_1_size

\* metal_5_size = snapped + 2 * METAL_5_MIM_MARGIN
CmimMetal5Size(snapped) == snapped + 2 * METAL_5_MIM_MARGIN

\* What cmim draws and records once its local variables are assigned: the
\* component's rectangles (in drawing order), its ports and its info, with
\* the coordinates as cmim hands them to add_rect and add_port.  width and
\* length are the snapped values.
CmimComponent(metal_1_mim_margin_x, width, length, capacitance, n_tiles_x, n_tiles_y) ==
    LET metal_5_size_x == CmimMetal5Size(width)
        metal_5_size_y == CmimMetal5Size(length)
        metal_1_size_x == width - 2 * metal_1_mim_margin_x
        metal_1_size_y == length - 2 * METAL_1_MIM_MARGIN
        c1 == add_rect(<<>>, <<width, length>>, "MIMdrawing", <<0, 0>>)
        c2 == add_rect(c1, <<metal_5_size_x, metal_5_size_y>>, "Metal5drawing",
                       <<-METAL_5_MIM_MARGIN, -METAL_5_MIM_MARGIN>>)
        c3 == add_rect(c2, <<metal_1_size_x, metal_1_size_y>>, "TopMetal1drawing",
                       <<metal_1_mim_margin_x, METAL_1_MIM_MARGIN>>)
    IN  [rects |-> c3 \o CmimTiles(n_tiles_x, n_tiles_y),
         ports |-> [P1 |-> [center |-> <<CmimP1Center(metal_5_size_x),
                                         CmimP1Center(metal_5_size_y)>>,
                            width |-> Min(metal_5_size_x, metal_5_size_y),
                            orientation |-> 180,
                            layer |-> "Metal5drawing"],
                    P2 |-> [center |-> <<CmimP2Center(metal_1_size_x),
                                         CmimP2Center(metal_1_size_y)>>,
                            width |-> Min(metal_1_size_x, metal_1_size_y),
                            orientation |-> 0,
                            layer |-> "TopMetal1drawing"]],
         info |-> [model |-> "cmim",
                   capacitance |-> capacitance,
                   mim_length |-> length,
                   mim_width |-> width,
                   vmim_tile_length |-> VMIM_TILE_LENGTH,
                   n_vmim_tiles |-> <<n_tiles_x, n_tiles_y>>]]

\* The whole of cmim.  The margin is taken from the width as passed in, then
\* length and width are snapped, then the tile counts are taken from the
\* snapped values; each is assigned once (a bound variable here) and used
\* from there on.
cmim(width0, length0, capacitance0) ==
    CHOOSE c \in UNION {
        {CmimComponent(Metal1MimMarginX(width0), width, length,
                       CmimCapacitance(width, length, capacitance0),
                       n_tiles_x, n_tiles_y) :
            n_tiles_x \in {CmimNTiles(width)}, n_tiles_y \in {CmimNTiles(length)}} :
        length \in {GridSnap(length0)}, width \in {GridSnap(width0)}} : TRUE

\* The widths and lengths cmim is called with, in argument units: values
\* half-way between two grid points whose float quotient falls below the
\* half (0.1175), above it (0.6225) and on it (1.5025); values below the
\* top-plate margins (0.5, 1.0), around one tile pitch (1.5), 3.0, the
\* default 6.99, off-grid values that snap down (6.992) and up (6.998), two
\* values on either side of 7.125 that both snap to it (7.123, 7.127), 10.0.
CmimSizes == {470, 2000, 2490, 4000, 6000, 6010, 12000,
              27960, 27968, 27992, 28492, 28508, 40000}
\* A width of 63 tile pitches (79.38), whose float tile count is 62, and a
\* width beyond 156.25 um (160.001), where -0.004 * width + 0.625 turns
\* negative; they go with the short lengths (0.5, 1.5) only.
CmimWideWidths == {317520, 640004}
CmimShortLengths == {2000, 6000}
CmimCapacitances == {None, Some(0), Some(7500)}

CmimInputs ==
    ((CmimSizes \X CmimSizes) \cup (CmimWideWidths \X CmimShortLengths))
        \X CmimCapacitances

\* One call per behaviour: cmim computes its result from its arguments alone.
CallCmim ==
    /\ cmimCall = <<>>
    /\ \E in \in CmimInputs :
          LET width == in[1][1]
              length == in[1][2]
              capacitance == in[2]
          IN  cmimCall' = <<[args |-> [width |-> width, length |-> length,
                                        capacitance |-> capacitance],
                             ret |-> cmim(width, length, capacitance)]>>
    /\ UNCHANGED <<npnCall, jobCall, fs, run, nRuns, plotCall, nPlots>>

(***************************************************************************)
(*                              npn13G2                                    *)
(***************************************************************************)
stepX == 1850000
pcStepY == 410000
yOffset == 200000
pcRepeatY == 4
leoffset == 0
via1_size == 190000

\* bipwinyoffset = (2 * (bipwiny - 0.1) - 0) / 2
bipwinyoffset(bipwiny) == (2 * (bipwiny - 100000) - 0) \div 2
\* empolyyoffset = (2 * (empolyy - 0.18)) / 2
empolyyoffset(empolyy) == (2 * (empolyy - 180000)) \div 2

\* Nx is given in halves (Nx2 = 2 * Nx), so that math.floor has something to
\* cut: int(math.floor(Nx)).
NpnFloorNx(Nx2) == Nx2 \div 2

\* A faulty variant of NpnViaLeft: the right via placed 0.11 from the left via's
\* edge instead of 0.11 from the column's origin.
NpnViaLeftShifted(pcIndexX, side) ==
    IF side = 0 THEN (stepX * pcIndexX) - 300000
    ELSE (stepX * pcIndexX) - 300000 + 110000

\* left = (stepX * pcIndexX) - 0.3 for the via on the left side (side 0),
\* left = (stepX * pcIndexX) + 0.11 for the via on the right side (side 1).
NpnViaLeft(pcIndexX, side) ==
    IF side = 0 THEN (stepX * pcIndexX) - 300000
    ELSE (stepX * pcIndexX) + 110000

NpnViaBottom(pcIndexY, bipwiny, empolyy) ==
    -((-300000 - yOffset - leoffset - bipwinyoffset(bipwiny) - empolyyoffset(empolyy))
        + (pcIndexY * pcStepY))
    + 200000
    - via1_size

\* The whole of npn13G2: the Via1 rectangles in drawing order (for pcIndexX,
\* for pcIndexY: the left via, then the right via).  range() of a negative
\* number is empty.
npn13G2(Nx2, bipwiny, empolyy) ==
    LET nX == Max(NpnFloorNx(Nx2), 0)
        perColumn == 2 * pcRepeatY
    IN  [k \in 1..(nX * perColumn) |->
            LET pcIndexX == (k - 1) \div perColumn
                pcIndexY == ((k - 1) % perColumn) \div 2
                side == (k - 1) % 2
            IN  [layer |-> "Via1drawing",
                 origin |-> <<NpnViaLeft(pcIndexX, side),
                              NpnViaBottom(pcIndexY, bipwiny, empolyy)>>,
                 size |-> <<via1_size, via1_size>>]]

MaxNx == 4
NpnNx2s == (-2)..(2 * MaxNx)
NpnBipwinys == {70000, 100000, 130000, 200000}
NpnEmpolyys == {150000, 180000, 200000}

CallNpn ==
    /\ \E Nx2 \in NpnNx2s, bipwiny \in NpnBipwinys, empolyy \in NpnEmpolyys :
          npnCall' = <<[args |-> [Nx2 |-> Nx2, bipwiny |-> bipwiny,
                                   empolyy |-> empolyy],
                        ret |-> npn13G2(Nx2, bipwiny, empolyy)]>>
    /\ UNCHANGED <<cmimCall, jobCall, fs, run, nRuns, plotCall, nPlots>>

(***************************************************************************)
(*                         print_job_summary                               *)
(* Timestamps are integers in milliseconds; a dict is the sequence of its  *)
(* keys in insertion order.  A printed line is a record of its label and   *)
(* the values formatted into it.                                           *)
(***************************************************************************)
MsPerSecond == 1000

\* int(delta.total_seconds()): int() cuts towards zero.
JobWholeSeconds(delta) ==
    IF delta >= 0 THEN delta \div MsPerSecond ELSE -((-delta) \div MsPerSecond)

\* A faulty variant of JobDivmod: minutes of 100 seconds.
JobDivmod100(total) == [minutes |-> total \div 100, seconds |-> total % 100]

\* divmod(total, 60): Python's floor division and its remainder in 0..59.
JobDivmod(total) == [minutes |-> total \div 60, seconds |-> total % 60]

\* Lines 31-36: a datetime is always true, so the test is "neither is None".
JobDuration(started_at, finished_at) ==
    IF started_at # None /\ finished_at # None
    THEN LET d == JobDivmod(JobWholeSeconds(finished_at[1] - started_at[1]))
         IN  [na |-> FALSE, minutes |-> d.minutes, seconds |-> d.seconds]
    ELSE [na |-> TRUE, minutes |-> 0, seconds |-> 0]

\* Lines 38-39: below 1024 KB one decimal of KB, else two decimals of MB.
JobSizeStr(output_size_bytes) ==
    IF output_size_bytes < 1024 * 1024
    THEN [unit |-> "KB", decimals |-> 1,
          scaled |-> RoundHalfEven(output_size_bytes * 10, 1024)]
    ELSE [unit |-> "MB", decimals |-> 2,
          scaled |-> RoundHalfEven(output_size_bytes * 100, 1024 * 1024)]

\* Line 40: list(job.download_urls.keys()) if job.download_urls else []
JobFiles(download_urls) ==
    IF download_urls # None /\ download_urls[1] # <<>> THEN download_urls[1] ELSE <<>>

print_job_summary(job) ==
    LET files == JobFiles(job.download_urls)
    IN  << [label |-> "Job:", job_name |-> job.job_name],
           [label |-> "Status:", status |-> job.status, exit_code |-> job.exit_code],
           [label |-> "Duration:",
            duration |-> JobDuration(job.started_at, job.finished_at)],
           [label |-> "Resources:", cpu |-> job.requested_cpu,
            gb |-> job.requested_memory_mb \div 1024],
           [label |-> "Output:", size |-> JobSizeStr(job.output_size_bytes)],
           [label |-> "Files:", count |-> Len(files)] >>
        \o [i \in 1..Len(files) |-> [label |-> "-", file |-> files[i]]]

JobTimes == {None, Some(0), Some(59999), Some(61500), Some(3725000)}
JobDownloadUrls == {None, Some(<<>>), Some(<<"mesh.msh">>),
                    Some(<<"results.csv", "mesh.msh">>)}
JobSizes == {1536, 3145728}
Jobs ==
    [job_name : {"sim"}, status : {"completed"}, exit_code : {0},
     started_at : JobTimes, finished_at : JobTimes,
     requested_cpu : {2}, requested_memory_mb : {3000},
     output_size_bytes : JobSizes, download_urls : JobDownloadUrls]

CallPrintJobSummary ==
    /\ \E job \in Jobs :
          jobCall' = <<[job |-> job, out |-> print_job_summary(job)]>>
    /\ UNCHANGED <<cmimCall, npnCall, fs, run, nRuns, plotCall, nPlots>>

(***************************************************************************)
(*                       upload_simulation_dir                             *)
(* A path is the sequence of its names.  fs maps the regular files to      *)
(* their sizes in bytes; the directories are the prefixes of the paths     *)
(* used below.  run is the record of the latest call: its arguments, the   *)
(* position reached (pc), the archive being written, the calls made to     *)
(* sim.upload_simulation and the steps taken (trace).                      *)
(***************************************************************************)
ZipName == "simulation_zipfile.zip"

IsPrefix(p, q) == Len(p) <= Len(q) /\ SubSeq(q, 1, Len(p)) = p

\* file.relative_to(input_dir)
RelativeTo(file, input_dir) == SubSeq(file, Len(input_dir) + 1, Len(file))

\* input_dir.rglob("*") filtered by is_file(): the regular files below
\* input_dir, at any depth.
RglobFiles(files, input_dir) ==
    {f \in files : IsPrefix(input_dir, f) /\ Len(f) > Len(input_dir)}

\* Path("simulation_zipfile.zip"), resolved against the working directory.
ZipPath(cwd) == Append(cwd, ZipName)

\* The file system with file p of the given size, created or overwritten.
WriteFile(files, p, size) ==
    [q \in DOMAIN files \cup {p} |-> IF q = p THEN size ELSE files[q]]

\* The file system without file p.
RemoveFile(files, p) == [q \in DOMAIN files \ {p} |-> files[q]]

\* The zip format as zipfile writes it with ZIP_STORED: an entry is a local
\* header of 30 bytes, the entry's name and the file's bytes; close() appends
\* the central directory, 46 bytes and the name per entry, and an end record
\* of 22 bytes.
ZIP_LOCAL_HEADER == 30
ZIP_CENTRAL_HEADER == 46
ZIP_END_RECORD == 22
\* The archive is written through a buffer of one file-system block.
ZIP_WRITE_BUFFER == 4096

\* The length of an entry's name: the names of the relative path joined by "/".
RECURSIVE ArcnameLen(_)
ArcnameLen(rel) ==
    IF Len(rel) = 1 THEN Len(rel[1])
    ELSE Len(rel[1]) + 1 + ArcnameLen(Tail(rel))

RECURSIVE CentralDirectorySize(_)
CentralDirectorySize(archive) ==
    IF archive = <<>> THEN ZIP_END_RECORD
    ELSE ZIP_CENTRAL_HEADER + ArcnameLen(Head(archive))
         + CentralDirectorySize(Tail(archive))

\* The largest size a file can reach (the room on the disk, the process's
\* file size limit): a write beyond it fails.
MaxFileSize == 1000000

MaxRuns == 1
InputDirs == {<<"in">>, <<"in", "sub">>}
WorkDirs == {<<"out">>, <<"in">>, <<"in", "sub">>}
JobDefinitions == {"jobA", "jobB"}
\* The files that may be on disk at the start, with the sizes each may have:
\* a few bytes, more than the archive's write buffer, or so many that the
\* entry fits the largest size and the archive's directory, or a second
\* entry, no longer does.
CandidateFiles == {<<"in", "a.geo">>, <<"in", "sub", "b.msh">>, <<"out", "c.txt">>}
FileSizes(p) == IF p = <<"in", "a.geo">> THEN {3, 5000, 999950} ELSE {3}
FileSystems ==
    UNION { {f \in [S -> UNION {FileSizes(p) : p \in S}] :
                \A p \in S : f[p] \in FileSizes(p)} :
            S \in SUBSET CandidateFiles }

\* Before the first call.
IdleRun ==
    [pc |-> "idle", input_dir |-> <<>>, cwd |-> <<>>, job_definition |-> "",
     zip_path |-> <<>>, fs0 |-> <<>>, todo |-> {}, archive |-> <<>>,
     closed |-> FALSE, calls |-> <<>>, pre_job |-> None, ret |-> None,
     trace |-> <<>>]

NotRunning == run.pc \in {"idle", "returned", "raised"}

\* The call: the arguments are bound, nothing has run yet.
UploadSimulationDir ==
    /\ NotRunning
    /\ nRuns < MaxRuns
    /\ \E input_dir \in InputDirs, cwd \in WorkDirs, job_definition \in JobDefinitions :
          run' = [IdleRun EXCEPT !.pc = "open",
                                 !.input_dir = input_dir,
                                 !.cwd = cwd,
                                 !.job_definition = job_definition,
                                 !.zip_path = ZipPath(cwd),
                                 !.fs0 = fs]
    /\ nRuns' = nRuns + 1
    /\ UNCHANGED <<cmimCall, npnCall, jobCall, fs, plotCall, nPlots>>

\* Line 19: zipfile.ZipFile(zip_path, "w") creates the file, or empties the
\* one that is there; or it raises (the directory cannot be written).
ZipOpen ==
    /\ run.pc = "open"
    /\ \/ /\ fs' = WriteFile(fs, run.zip_path, 0)
          /\ run' = [run EXCEPT !.pc = "scan", !.archive = <<>>,
                                !.trace = Append(@, "zip_open")]
       \/ /\ run' = [run EXCEPT !.pc = "raised", !.trace = Append(@, "raise")]
          /\ UNCHANGED fs
    /\ UNCHANGED <<cmimCall, npnCall, jobCall, nRuns, plotCall, nPlots>>

\* Line 20-21: the files the walk of input_dir yields, the archive's own
\* file among them when it lies below input_dir.
Rglob ==
    /\ run.pc = "scan"
    /\ run' = [run EXCEPT !.pc = "write",
                          !.todo = RglobFiles(DOMAIN fs, run.input_dir)]
    /\ UNCHANGED <<cmimCall, npnCall, jobCall, fs, nRuns, plotCall, nPlots>>

\* Line 22: zf.write(file, arcname=file.relative_to(input_dir)), for the
\* files in the order the walk yields them.  The entry's header and the
\* file's bytes as they are on disk go to the archive, which is on disk in
\* full once the entry is finished.  The archive's own file is read while it
\* is written: when the bytes on disk and the new header fit the write
\* buffer, the copy reads the bytes on disk once and ends; when they do not,
\* every block written is read again, the copy never ends and the write
\* fails when the file reaches the largest size, the archive left at that
\* size.  A write for which the archive has no room fails with the archive
\* left at the largest size.  Any write can fail for the file (it cannot
\* be read) before a byte of the entry is written: the with-block closes
\* the archive on the way out, the entries written so far in its directory.
ZipWrite ==
    /\ run.pc = "write"
    /\ \E file \in run.todo :
          LET arcname == RelativeTo(file, run.input_dir)
              written == fs[run.zip_path]
              header == ZIP_LOCAL_HEADER + ArcnameLen(arcname)
              grown == written + header + fs[file]
              ends == file # run.zip_path \/ written + header <= ZIP_WRITE_BUFFER
          IN  \/ /\ ends
                 /\ grown <= MaxFileSize
                 /\ fs' = WriteFile(fs, run.zip_path, grown)
                 /\ run' = [run EXCEPT !.todo = @ \ {file},
                                       !.archive = Append(@, arcname)]
              \/ /\ ~ends \/ grown > MaxFileSize
                 /\ fs' = WriteFile(fs, run.zip_path, MaxFileSize)
                 /\ run' = [run EXCEPT !.pc = "raised", !.closed = TRUE,
                                       !.trace = Append(@, "raise")]
              \/ /\ file # run.zip_path
                 /\ fs' = WriteFile(fs, run.zip_path,
                              Min(written + CentralDirectorySize(run.archive),
                                  MaxFileSize))
                 /\ run' = [run EXCEPT !.pc = "raised", !.closed = TRUE,
                                       !.trace = Append(@, "raise")]
    /\ UNCHANGED <<cmimCall, npnCall, jobCall, nRuns, plotCall, nPlots>>

\* The end of the with-block: close() writes the central directory and the
\* end record; when the archive has no room for them, what fits is written,
\* the write fails and the call raises, the archive left at the largest
\* size.
ZipClose ==
    /\ run.pc = "write"
    /\ run.todo = {}
    /\ \/ /\ fs[run.zip_path] + CentralDirectorySize(run.archive) <= MaxFileSize
          /\ fs' = WriteFile(fs, run.zip_path,
                       fs[run.zip_path] + CentralDirectorySize(run.archive))
          /\ run' = [run EXCEPT !.pc = "upload", !.closed = TRUE,
                                !.trace = Append(@, "zip_closed")]
       \/ /\ fs[run.zip_path] + CentralDirectorySize(run.archive) > MaxFileSize
          /\ fs' = WriteFile(fs, run.zip_path, MaxFileSize)
          /\ run' = [run EXCEPT !.pc = "raised", !.closed = TRUE,
                                !.trace = Append(@, "raise")]
    /\ UNCHANGED <<cmimCall, npnCall, jobCall, nRuns, plotCall, nPlots>>

\* What sim.upload_simulation is called with, and the archive as it is then.
UploadCallOf(r) ==
    [path |-> r.zip_path, job_definition |-> r.job_definition,
     archive |-> r.archive, closed |-> r.closed, written |-> r.todo = {}]

\* A faulty variant of UploadSimulation: a failed upload is tried again.
UploadSimulationRetry ==
    /\ run.pc = "upload"
    /\ \/ run' = [run EXCEPT !.pc = "unlink",
                             !.calls = Append(@, UploadCallOf(run)),
                             !.pre_job = Some(UploadCallOf(run)),
                             !.trace = Append(@, "upload")]
       \/ /\ Len(run.calls) < 2
          /\ run' = [run EXCEPT !.calls = Append(@, UploadCallOf(run)),
                                !.trace = Append(@, "upload")]
    /\ UNCHANGED <<cmimCall, npnCall, jobCall, fs, nRuns, plotCall, nPlots>>

\* Line 24: pre_job = sim.upload_simulation(path=zip_path, job_definition=...)
\* returns the pre-job of what it was given, or raises.
UploadSimulation ==
    /\ run.pc = "upload"
    /\ \/ run' = [run EXCEPT !.pc = "unlink",
                             !.calls = Append(@, UploadCallOf(run)),
                             !.pre_job = Some(UploadCallOf(run)),
                             !.trace = Append(@, "upload")]
       \/ run' = [run EXCEPT !.pc = "raised",
                             !.calls = Append(@, UploadCallOf(run)),
                             !.trace = Append(Append(@, "upload"), "raise")]
    /\ UNCHANGED <<cmimCall, npnCall, jobCall, fs, nRuns, plotCall, nPlots>>

\* Line 25: zip_path.unlink() removes the archive; or it raises (the
\* directory does not allow it): the archive stays and the upload's result
\* is lost to the caller.
Unlink ==
    /\ run.pc = "unlink"
    /\ \/ /\ fs' = RemoveFile(fs, run.zip_path)
          /\ run' = [run EXCEPT !.pc = "return", !.trace = Append(@, "unlink")]
       \/ /\ run' = [run EXCEPT !.pc = "raised", !.trace = Append(@, "raise")]
          /\ UNCHANGED fs
    /\ UNCHANGED <<cmimCall, npnCall, jobCall, nRuns, plotCall, nPlots>>

\* Line 26: return pre_job
Return ==
    /\ run.pc = "return"
    /\ run' = [run EXCEPT !.pc = "returned", !.ret = run.pre_job,
                          !.trace = Append(@, "return")]
    /\ UNCHANGED <<cmimCall, npnCall, jobCall, fs, nRuns, plotCall, nPlots>>

(***************************************************************************)
(*                            plot_mesh_pv                                 *)
(* Called between the runs of upload_simulation_dir, in the same process.  *)
(* What is drawn (all cells, or the groups picked by show_groups, in six   *)
(* colours taken in turn) goes to the plotter and leaves no state; the     *)
(* file written by the screenshot does.                                    *)
(***************************************************************************)
MaxPlots == 1
\* The mesh file asked for: on disk in some initial states, missing in others
MeshPaths == {<<"in", "sub", "b.msh">>}
\* output="mesh.png", relative to the working directory
PlotOutput == "mesh.png"
\* The size of a 1200 x 900 image file
ImageSizes == {20000}

plot_mesh_pv ==
    /\ NotRunning
    /\ nPlots < MaxPlots
    /\ nPlots' = nPlots + 1
    /\ \E msh_path \in MeshPaths, cwd \in WorkDirs, interactive \in BOOLEAN :
          LET args == [msh_path |-> msh_path, cwd |-> cwd, output |-> PlotOutput,
                       interactive |-> interactive]
          IN  \* line 64: meshio.read raises for a missing or malformed file
              \/ /\ plotCall' = <<[args |-> args, outcome |-> "raised"]>>
                 /\ UNCHANGED fs
              \* line 100: plotter.show()
              \/ /\ msh_path \in DOMAIN fs
                 /\ interactive
                 /\ plotCall' = <<[args |-> args, outcome |-> "shown"]>>
                 /\ UNCHANGED fs
              \* lines 102-104: plotter.screenshot(output) writes the image
              \/ /\ msh_path \in DOMAIN fs
                 /\ ~interactive
                 /\ \E size \in ImageSizes :
                       fs' = WriteFile(fs, Append(cwd, PlotOutput), size)
                 /\ plotCall' = <<[args |-> args, outcome |-> "saved"]>>
              \* line 104: display(Image(output)) raises, the image written
              \/ /\ msh_path \in DOMAIN fs
                 /\ ~interactive
                 /\ \E size \in ImageSizes :
                       fs' = WriteFile(fs, Append(cwd, PlotOutput), size)
                 /\ plotCall' = <<[args |-> args, outcome |-> "raised"]>>
    /\ UNCHANGED <<cmimCall, npnCall, jobCall, run, nRuns>>

\* The state of a fresh process, for the functions that do not touch the
\* disk: nothing called yet, no file of interest on disk.
InitCells ==
    /\ cmimCall = <<>>
    /\ npnCall = <<>>
    /\ jobCall = <<>>
    /\ fs = <<>>
    /\ run = IdleRun
    /\ nRuns = 0
    /\ plotCall = <<>>
    /\ nPlots = 0

\* The state of a fresh process in a directory tree holding any of the
\* candidate files.
Init ==
    /\ cmimCall = <<>>
    /\ npnCall = <<>>
    /\ jobCall = <<>>
    /\ fs \in FileSystems
    /\ run = IdleRun
    /\ nRuns = 0
    /\ plotCall = <<>>
    /\ nPlots = 0

NextCmim == CallCmim
SpecCmim == InitCells /\ [][NextCmim]_vars

NextNpn == CallNpn
SpecNpn == InitCells /\ [][NextNpn]_vars

NextJob == CallPrintJobSummary
SpecJob == InitCells /\ [][NextJob]_vars

NextUpload ==
    \/ UploadSimulationDir
    \/ ZipOpen
    \/ Rglob
    \/ ZipWrite
    \/ ZipClose
    \/ UploadSimulation
    \/ Unlink
    \/ Return
    \/ plot_mesh_pv
SpecUpload == Init /\ [][NextUpload]_vars

(***************************************************************************)
(*                            Properties                                   *)
(***************************************************************************)
Range(seq) == {seq[k] : k \in DOMAIN seq}
RectsOn(rects, layer) == {r \in Range(rects) : r.layer = layer}
RectOn(rects, layer) == CHOOSE r \in Range(rects) : r.layer = layer
X0(r) == r.origin[1]
Y0(r) == r.origin[2]
X1(r) == r.origin[1] + r.size[1]
Y1(r) == r.origin[2] + r.size[2]
Inside(a, b) == X0(b) <= X0(a) /\ X1(a) <= X1(b) /\ Y0(b) <= Y0(a) /\ Y1(a) <= Y1(b)
Overlap(a, b) == X0(a) < X1(b) /\ X0(b) < X1(a) /\ Y0(a) < Y1(b) /\ Y0(b) < Y1(a)
\* p, a port's center in half units of length, is the center of r
IsCenter(p, r) == p[1] = X0(r) + X1(r) /\ p[2] = Y0(r) + Y1(r)

\* C1: the archive handed to sim.upload_simulation holds exactly the regular
\* files that were under input_dir when upload_simulation_dir was called, one
\* entry per file, named by its path relative to input_dir, whatever the
\* working directory.
C1_ArchiveIsInputDir ==
    \A k \in DOMAIN run.calls :
        LET want == {RelativeTo(f, run.input_dir) :
                        f \in RglobFiles(DOMAIN run.fs0, run.input_dir)}
        IN  /\ Len(run.calls[k].archive) = Cardinality(want)
            /\ Range(run.calls[k].archive) = want

\* C2: without a capacitance argument the 'capacitance' metadata is
\* mim_width * mim_length * 1.54 of the snapped sizes in the metadata (each
\* the multiple of the grid step nearest the argument); with one, the
\* metadata holds it unchanged and rectangles and ports are those of the call
\* without it.
C2_Capacitance ==
    \A i \in DOMAIN cmimCall :
        LET a == cmimCall[i].args
            ret == cmimCall[i].ret
            w == ret.info.mim_width
            l == ret.info.mim_length
            bare == cmim(a.width, a.length, None)
        IN  /\ w % GRID_STEP = 0 /\ 2 * (w - ARG_STEP * a.width) <= GRID_STEP
                                 /\ 2 * (ARG_STEP * a.width - w) <= GRID_STEP
            /\ l % GRID_STEP = 0 /\ 2 * (l - ARG_STEP * a.length) <= GRID_STEP
                                 /\ 2 * (ARG_STEP * a.length - l) <= GRID_STEP
            /\ a.capacitance = None =>
                  ret.info.capacitance
                      = (w \div GRID_STEP) * (l \div GRID_STEP) * CAP_DENSITY
            /\ a.capacitance # None =>
                  /\ ret.info.capacitance = a.capacitance[1]
                  /\ ret.rects = bare.rects
                  /\ ret.ports = bare.ports

\* C2's case: a capacitance of 0 is passed with an off-grid width, 6.998.
C2_Witness ==
    /\ cmimCall # <<>>
    /\ cmimCall[1].args.capacitance = Some(0)
    /\ cmimCall[1].args.width = 27992
    /\ cmimCall[1].ret.info.mim_width = 7000000

\* C3: port P1 is at the center of the Metal5 rectangle and port P2 at the
\* center of the TopMetal1 rectangle, in x and y.
C3_PortsAtPlateCenters ==
    \A i \in DOMAIN cmimCall :
        LET ret == cmimCall[i].ret
        IN  /\ IsCenter(ret.ports.P1.center, RectOn(ret.rects, "Metal5drawing"))
            /\ IsCenter(ret.ports.P2.center, RectOn(ret.rects, "TopMetal1drawing"))

\* C4: in every run the steps come in the order zip written and closed,
\* sim.upload_simulation called once with the archive's path and the
\* caller's job_definition, archive deleted, result returned, each at most
\* once; a failure ends the run there (it propagates) and nothing is retried.
UploadOrder == <<"zip_open", "zip_closed", "upload", "unlink", "return">>
C4_StepsInOrder ==
    LET t == run.trace
        raised == t # <<>> /\ t[Len(t)] = "raise"
        steps == IF raised THEN SubSeq(t, 1, Len(t) - 1) ELSE t
    IN  /\ Len(steps) <= Len(UploadOrder)
        /\ steps = SubSeq(UploadOrder, 1, Len(steps))
        /\ (run.pc = "raised") <=> raised
        /\ Len(run.calls) <= 1
        /\ \A k \in DOMAIN run.calls :
              /\ run.calls[k].path = Append(run.cwd, ZipName)
              /\ run.calls[k].job_definition = run.job_definition
              /\ run.calls[k].closed
              /\ run.calls[k].written
              /\ run.calls[k].archive = run.archive
        /\ run.pc \in {"unlink", "return", "returned"} => Len(run.calls) = 1
        /\ run.pc \in {"return", "returned"} =>
              Append(run.cwd, ZipName) \notin DOMAIN fs
        /\ run.pc = "returned" =>
              /\ steps = UploadOrder
              /\ run.ret = Some(run.calls[1])

\* C4's case: a run went through all its steps with two files in the archive.
C4_Witness ==
    /\ run.pc = "returned"
    /\ Len(run.archive) = 2
    /\ run.trace = UploadOrder

\* C5: every Vmim tile lies inside the TopMetal1 rectangle of the same call.
C5_TilesInsideTopPlate ==
    \A i \in DOMAIN cmimCall :
        LET ret == cmimCall[i].ret
        IN  \A t \in RectsOn(ret.rects, "Vmimdrawing") :
                Inside(t, RectOn(ret.rects, "TopMetal1drawing"))

\* The Metal5 rectangle encloses the MIM rectangle (0,0)-(width,length) of
\* the snapped sizes with a margin of 0.6 on every side.
Metal5Encloses(ret) ==
    LET mim == RectOn(ret.rects, "MIMdrawing")
        m5 == RectOn(ret.rects, "Metal5drawing")
    IN  /\ X0(mim) = 0 /\ Y0(mim) = 0
        /\ X1(mim) = ret.info.mim_width /\ Y1(mim) = ret.info.mim_length
        /\ X0(m5) = X0(mim) - 600000 /\ Y0(m5) = Y0(mim) - 600000
        /\ X1(m5) = X1(mim) + 600000 /\ Y1(m5) = Y1(mim) + 600000

\* The TopMetal1 rectangle has positive size and lies inside the MIM one.
TopPlateInset(ret) ==
    LET mim == RectOn(ret.rects, "MIMdrawing")
        tm1 == RectOn(ret.rects, "TopMetal1drawing")
    IN  tm1.size[1] > 0 /\ tm1.size[2] > 0 /\ Inside(tm1, mim)

\* C6: for every width and length the top plate has positive size
\* and lies inside the MIM rectangle, and the Metal5 plate encloses the MIM
\* rectangle with a 0.6 margin on every side.
C6_PlatesEveryInput ==
    \A i \in DOMAIN cmimCall :
        TopPlateInset(cmimCall[i].ret) /\ Metal5Encloses(cmimCall[i].ret)

\* C7: npn13G2 draws 8 * floor(Nx) Via1 squares of side 0.19 (none for
\* Nx <= 0): per column 4 rows of a left and a right via with the same bottom
\* edge, columns 1.85 apart, rows 0.41 apart; no two squares overlap.
C7_Vias ==
    \A i \in DOMAIN npnCall :
        LET Nx2 == npnCall[i].args.Nx2
            n == Nx2 \div 2
            vias == npnCall[i].ret
            L(col, row) == vias[8 * col + 2 * row + 1]
            R(col, row) == vias[8 * col + 2 * row + 2]
        IN  /\ Len(vias) = IF Nx2 > 0 THEN 8 * n ELSE 0
            /\ \A k \in DOMAIN vias :
                  vias[k].layer = "Via1drawing" /\ vias[k].size = <<190000, 190000>>
            /\ \A col \in 0..(n - 1), row \in 0..3 :
                  /\ Y0(L(col, row)) = Y0(R(col, row))
                  /\ X0(L(col, row)) < X0(R(col, row))
                  /\ col > 0 => /\ X0(L(col, row)) = X0(L(col - 1, row)) + 1850000
                                /\ X0(R(col, row)) = X0(R(col - 1, row)) + 1850000
                                /\ Y0(L(col, row)) = Y0(L(col - 1, row))
                  /\ row > 0 => Y0(L(col, row)) = Y0(L(col, row - 1)) - 410000
            /\ \A j, k \in DOMAIN vias : j < k => ~Overlap(vias[j], vias[k])

\* C7's case: Nx = 2.5 gives two columns, 16 vias.
C7_Witness ==
    /\ npnCall # <<>>
    /\ npnCall[1].args.Nx2 = 5
    /\ Len(npnCall[1].ret) = 16

\* C8: the duration is 'N/A' exactly when started_at or finished_at is
\* missing; otherwise '<m>m <s>s' with 0 <= s < 60 and 60*m + s the elapsed
\* time in whole seconds; the count line gives the number of keys of
\* download_urls (0 when empty or missing) and one file line per key follows.
C8_Summary ==
    \A i \in DOMAIN jobCall :
        LET job == jobCall[i].job
            out == jobCall[i].out
            dur == (CHOOSE ln \in Range(out) : ln.label = "Duration:").duration
            keys == IF job.download_urls = None THEN <<>> ELSE job.download_urls[1]
            ci == CHOOSE k \in DOMAIN out : out[k].label = "Files:"
        IN  /\ Cardinality({k \in DOMAIN out : out[k].label = "Duration:"}) = 1
            /\ dur.na <=> (job.started_at = None \/ job.finished_at = None)
            /\ ~dur.na =>
                  LET delta == job.finished_at[1] - job.started_at[1]
                      e == 60 * dur.minutes + dur.seconds
                  IN  /\ 0 <= dur.seconds /\ dur.seconds < 60
                      /\ IF delta >= 0
                         THEN 1000 * e <= delta /\ delta < 1000 * (e + 1)
                         ELSE 1000 * (e - 1) < delta /\ delta <= 1000 * e
            /\ Cardinality({k \in DOMAIN out : out[k].label = "Files:"}) = 1
            /\ out[ci].count = Len(keys)
            /\ Len(out) = ci + Len(keys)
            /\ \A k \in 1..Len(keys) : out[ci + k] = [label |-> "-", file |-> keys[k]]

\* C8's case: 62 minutes 5 seconds and two files.
C8_Witness ==
    /\ jobCall # <<>>
    /\ jobCall[1].job.started_at = Some(0)
    /\ jobCall[1].job.finished_at = Some(3725000)
    /\ jobCall[1].job.download_urls = Some(<<"results.csv", "mesh.msh">>)
    /\ Len(jobCall[1].out) = 8

\* C9: whenever a call of upload_simulation_dir has finished, returned or
\* raised, simulation_zipfile.zip no longer exists in the working directory.
C9_ZipGoneWhenFinished ==
    run.pc \in {"returned", "raised"} => Append(run.cwd, ZipName) \notin DOMAIN fs

\* C10: the result of cmim depends on width and length only through their
\* snapped values: cmim(w, l) is cmim(snap(w), snap(l)), and any two calls
\* with the same snapped sizes give the same rectangles, ports and metadata.
C10_DependsOnSnappedOnly ==
    \A i \in DOMAIN cmimCall :
        LET a == cmimCall[i].args
        IN  /\ cmimCall[i].ret
                  = cmim(GridSnap(a.width) \div ARG_STEP,
                         GridSnap(a.length) \div ARG_STEP, a.capacitance)
            /\ \A other \in CmimInputs :
                  (/\ GridSnap(other[1][1]) = cmimCall[i].ret.info.mim_width
                   /\ GridSnap(other[1][2]) = cmimCall[i].ret.info.mim_length
                   /\ other[2] = a.capacitance)
                  => cmim(other[1][1], other[1][2], other[2]) = cmimCall[i].ret

====
